---- MODULE Spec2Model ----
(***************************************************************************)
(* Douyin Downloader API (src/main.py): two rate-limited HTTP endpoints,   *)
(* /info and /download, that extract a video id from a share URL, ask a    *)
(* third-party resolver for the media URLs and, for /download, relay the   *)
(* media body to the caller.                                               *)
(*                                                                         *)
(* Strings that the code inspects character by character (the share URL,   *)
(* the regular expressions) are sequences of one-character strings.  The   *)
(* values the resolver's JSON can hold are tagged records, so that Python's*)
(* behaviour on a value of the wrong type (TypeError) or a missing key     *)
(* (KeyError) can be computed.  A request handler is one action: both      *)
(* handlers are `async def` bodies without a single await, so each runs to *)
(* its return or raise without interleaving; what the network answers is   *)
(* an input of the action.  The relay of a StreamingResponse runs after    *)
(* the handler has returned and is a sequence of separate steps.           *)
(***************************************************************************)
EXTENDS Integers, Sequences, FiniteSets, TLC

VARIABLES hits, req, relay

vars == <<hits, req, relay>>

----------------------------------------------------------------------------
(* Bounds of the model *)

\* Requests beyond the limit that one (route, address) key makes in a window,
\* where the limits are explored.
MaxOver == 1

\* Requests of one key in one window, where every kind of request is explored.
MaxHits == 2

\* Largest upstream media body, in whole chunks (bodies also end off a chunk
\* boundary by one byte).
MaxChunks == 2

----------------------------------------------------------------------------
(* Characters and the share URLs offered to the handlers *)

Digits == {"0", "1", "2", "3", "4", "5", "6", "7", "8", "9"}

Letters ==
    {"a", "b", "c", "d", "e", "f", "g", "h", "i", "j", "k", "l", "m", "n", "o", "p", "q", "r", "s", "t", "u", "v", "w", "x", "y", "z",
     "A", "B", "C", "Q", "X"}

\* \w of Python's re on the characters used here: letters, digits, underscore.
WordChars == Letters \cup Digits \cup {"_"}

Http == <<"h", "t", "t", "p">>

SchemeSep == <<":", "/", "/">>

LitShort ==
    <<"v", ".", "d", "o", "u", "y", "i", "n", ".", "c", "o", "m", "/">>
LitVideo ==
    <<"w", "w", "w", ".", "d", "o", "u", "y", "i", "n", ".", "c", "o", "m", "/", "v", "i", "d", "e", "o", "/">>
LitTikTok ==
    <<"v", "m", ".", "t", "i", "k", "t", "o", "k", ".", "c", "o", "m", "/">>
UrlShort ==
    <<"h", "t", "t", "p", "s", ":", "/", "/", "v", ".", "d", "o", "u", "y", "i", "n", ".", "c", "o", "m", "/", "A", "B", "C", "1", "2", "3", "/">>
UrlVideo ==
    <<"h", "t", "t", "p", "s", ":", "/", "/", "w", "w", "w", ".", "d", "o", "u", "y", "i", "n", ".", "c", "o", "m", "/", "v", "i", "d", "e", "o", "/", "7", "3", "0", "1">>
UrlTikTok ==
    <<"h", "t", "t", "p", "s", ":", "/", "/", "v", "m", ".", "t", "i", "k", "t", "o", "k", ".", "c", "o", "m", "/", "A", "B", "C", "1", "2", "3", "/">>
UrlPlainHttp ==
    <<"h", "t", "t", "p", ":", "/", "/", "v", ".", "d", "o", "u", "y", "i", "n", ".", "c", "o", "m", "/", "a", "_", "b", "-", "c">>
UrlBoth ==
    <<"h", "t", "t", "p", "s", ":", "/", "/", "v", "m", ".", "t", "i", "k", "t", "o", "k", ".", "c", "o", "m", "/", "x", "y", "?", "u", "=", "h", "t", "t", "p", "s", ":", "/", "/", "v", ".", "d", "o", "u", "y", "i", "n", ".", "c", "o", "m", "/", "c", "d">>
UrlDigitsThenLetters ==
    <<"h", "t", "t", "p", "s", ":", "/", "/", "w", "w", "w", ".", "d", "o", "u", "y", "i", "n", ".", "c", "o", "m", "/", "v", "i", "d", "e", "o", "/", "1", "2", "a", "b">>
UrlEmbedded ==
    <<"s", "e", "e", " ", "x", "h", "t", "t", "p", "s", ":", "/", "/", "v", ".", "d", "o", "u", "y", "i", "n", ".", "c", "o", "m", "/", "Q", "1">>
UrlDotNotLiteral ==
    <<"h", "t", "t", "p", "s", ":", "/", "/", "v", "X", "d", "o", "u", "y", "i", "n", ".", "c", "o", "m", "/", "A", "B", "C", "1", "2", "3">>
UrlVideoNoDigits ==
    <<"h", "t", "t", "p", "s", ":", "/", "/", "w", "w", "w", ".", "d", "o", "u", "y", "i", "n", ".", "c", "o", "m", "/", "v", "i", "d", "e", "o", "/", "a", "b", "c">>
UrlFtp ==
    <<"f", "t", "p", ":", "/", "/", "v", ".", "d", "o", "u", "y", "i", "n", ".", "c", "o", "m", "/", "A", "B", "C">>
UrlNoId ==
    <<"h", "t", "t", "p", "s", ":", "/", "/", "v", ".", "d", "o", "u", "y", "i", "n", ".", "c", "o", "m", "/">>
UrlDoubleS ==
    <<"h", "t", "t", "p", "s", "s", ":", "/", "/", "v", ".", "d", "o", "u", "y", "i", "n", ".", "c", "o", "m", "/", "A", "B", "C">>
UrlUserPage ==
    <<"h", "t", "t", "p", "s", ":", "/", "/", "w", "w", "w", ".", "d", "o", "u", "y", "i", "n", ".", "c", "o", "m", "/", "u", "s", "e", "r", "/", "1", "2", "3">>
IdABC123 ==
    <<"A", "B", "C", "1", "2", "3">>
Id7301 ==
    <<"7", "3", "0", "1">>
IdCd ==
    <<"c", "d">>
IdAB ==
    <<"a", "_", "b">>
Id12 ==
    <<"1", "2">>
IdQ1 ==
    <<"Q", "1">>

Urls ==
    {UrlShort, UrlVideo, UrlTikTok, UrlPlainHttp, UrlBoth, UrlDigitsThenLetters, UrlEmbedded,
     UrlDotNotLiteral, UrlVideoNoDigits, UrlFtp, UrlNoId, UrlDoubleS, UrlUserPage, <<>>}

----------------------------------------------------------------------------
(* extract_douyin_id: re.search over the three patterns, in order *)

\* The three patterns: each is  https?://  a literal host and path  (class+).
patterns ==
    << [lit |-> LitShort, cls |-> WordChars],
       [lit |-> LitVideo, cls |-> Digits],
       [lit |-> LitTikTok, cls |-> WordChars] >>

\* s holds lit at position p.
StartsAt(s, p, lit) ==
    /\ p + Len(lit) - 1 <= Len(s)
    /\ \A i \in 1..Len(lit) : s[p + i - 1] = lit[i]

\* The position after the longest run of cls characters of s that starts at p.
RECURSIVE RunEnd(_, _, _)
RunEnd(s, p, cls) ==
    IF p <= Len(s) /\ s[p] \in cls THEN RunEnd(s, p + 1, cls) ELSE p

NoMatch ==
    [found |-> FALSE, group1 |-> <<>>]

\* ://literal(class+) matched at q, up to position e: the match, group 1 being the
\* whole run of class characters.
MatchUpTo(s, r, e) ==
    IF e > r THEN [found |-> TRUE, group1 |-> SubSeq(s, r, e - 1)] ELSE NoMatch

MatchRest(pat, s, q) ==
    IF StartsAt(s, q, SchemeSep \o pat.lit)
    THEN MatchUpTo(s, q + Len(SchemeSep) + Len(pat.lit),
                   RunEnd(s, q + Len(SchemeSep) + Len(pat.lit), pat.cls))
    ELSE NoMatch

\* The first of two attempts that matched.
FirstFound(a, b) ==
    IF a.found THEN a ELSE b

\* The pattern matched at position p: "s?" first tries the s, then none.
MatchAt(pat, s, p) ==
    IF ~StartsAt(s, p, Http) THEN NoMatch
    ELSE FirstFound(IF StartsAt(s, p + Len(Http), <<"s">>) THEN MatchRest(pat, s, p + Len(Http) + 1) ELSE NoMatch,
                    MatchRest(pat, s, p + Len(Http)))

\* re.search: the match at the leftmost position that has one.
RECURSIVE SearchFrom(_, _, _)
SearchFrom(pat, s, p) ==
    IF p > Len(s) THEN NoMatch
    ELSE FirstFound(MatchAt(pat, s, p), SearchFrom(pat, s, p + 1))

re_search(pat, s) ==
    SearchFrom(pat, s, 1)

InvalidUrlDetail ==
    [msg |-> "Invalid Douyin URL. Supported formats: 1. https://v.douyin.com/ABC123/ 2. https://www.douyin.com/video/1234567890123456789 3. https://vm.tiktok.com/ABC123/",
     exc |-> ""]

\* What a call ends with: a value returned, an HTTPException raised, or another
\* exception raised.
Returned(v) ==
    [k |-> "return", value |-> v, status |-> 0, detail |-> [msg |-> "", exc |-> ""], exc |-> ""]

RaisedHTTP(code, d) ==
    [k |-> "http", value |-> <<>>, status |-> code, detail |-> d, exc |-> ""]

Raised(cls, text) ==
    [k |-> "raise", value |-> <<>>, status |-> 0, detail |-> [msg |-> "", exc |-> text], exc |-> cls]

\* `if match: return match.group(1)`, else what follows.
ReturnGroupOr(match, rest) ==
    IF match.found THEN Returned(match.group1) ELSE rest

\* The loop of extract_douyin_id from the i-th pattern on.
RECURSIVE ExtractFrom(_, _)
ExtractFrom(i, url) ==
    IF i > Len(patterns) THEN RaisedHTTP(400, InvalidUrlDetail)
    ELSE ReturnGroupOr(re_search(patterns[i], url), ExtractFrom(i + 1, url))

\* The same loop over the patterns from the last to the first.
RECURSIVE ExtractBackFrom(_, _)
ExtractBackFrom(i, url) ==
    IF i < 1 THEN RaisedHTTP(400, InvalidUrlDetail)
    ELSE ReturnGroupOr(re_search(patterns[i], url), ExtractBackFrom(i - 1, url))

extract_douyin_id_reversed(url) ==
    ExtractBackFrom(Len(patterns), url)

extract_douyin_id(url) ==
    ExtractFrom(1, url)

----------------------------------------------------------------------------
(* Python values of the resolver's JSON body *)

JStr(s) ==
    [t |-> "str", s |-> s, keys |-> {}, f |-> <<>>]

JNum(s) ==
    [t |-> "num", s |-> s, keys |-> {}, f |-> <<>>]

JNull ==
    [t |-> "null", s |-> "", keys |-> {}, f |-> <<>>]

\* A dict: f maps each key to its value.
JDict(f) ==
    [t |-> "dict", s |-> "", keys |-> DOMAIN f, f |-> f]

JEmptyDict ==
    [t |-> "dict", s |-> "", keys |-> {}, f |-> <<>>]

\* A list of strings: f is the sequence of its elements.
JList(f) ==
    [t |-> "list", s |-> "", keys |-> {}, f |-> f]

\* A body that is not JSON at all.
NotJson ==
    [t |-> "invalid", s |-> "", keys |-> {}, f |-> <<>>]

VideoUrl == "https://cdn.example/nwm.mp4"

AudioUrl == "https://cdn.example/music.mp3"

VideoData == JDict([nwm_video_url |-> JStr(VideoUrl)])

MusicData == JDict([play_url |-> JDict([uri |-> JStr(AudioUrl)])])

JOk == JDict([video_data |-> VideoData, music_data |-> MusicData])

JsonBodies ==
    { JOk,
      JEmptyDict,
      JDict([music_data |-> MusicData]),
      JDict([video_data |-> VideoData]),
      JDict([video_data |-> JEmptyDict, music_data |-> MusicData]),
      JDict([video_data |-> VideoData, music_data |-> JEmptyDict]),
      JDict([video_data |-> VideoData, music_data |-> JDict([play_url |-> JEmptyDict])]),
      JDict([video_data |-> JNull, music_data |-> MusicData]),
      JDict([video_data |-> JStr(VideoUrl), music_data |-> MusicData]),
      JDict([video_data |-> VideoData, music_data |-> JDict([play_url |-> JStr(AudioUrl)])]),
      JDict([video_data |-> JDict([nwm_video_url |-> JStr("")]), music_data |-> MusicData]),
      JDict([video_data |-> VideoData, music_data |-> JDict([play_url |-> JDict([uri |-> JStr("")])])]),
      JDict([video_data |-> JDict([nwm_video_url |-> JNull]), music_data |-> MusicData]),
      JDict([video_data |-> VideoData, music_data |-> JDict([play_url |-> JDict([uri |-> JNum("42")])])]),
      JList(<<"video_data", "music_data">>),
      JList(<<>>),
      JNull }

\* key in data
PyIn(key, data) ==
    CASE data.t = "dict" -> Returned(key \in data.keys)
      [] data.t = "list" -> Returned(\E i \in 1..Len(data.f) : data.f[i] = key)
      [] OTHER -> Raised("TypeError", "argument is not iterable")

\* data[key], key a string
PyGetItem(data, key) ==
    CASE data.t = "dict" /\ key \in data.keys -> Returned(data.f[key])
      [] data.t = "dict" -> Raised("KeyError", key)
      [] data.t = "list" -> Raised("TypeError", "list indices must be integers or slices, not str")
      [] data.t = "str" -> Raised("TypeError", "string indices must be integers")
      [] OTHER -> Raised("TypeError", "object is not subscriptable")

\* The classes an `except requests.exceptions.RequestException` clause catches.
RequestExceptions ==
    {"ConnectionError", "ConnectTimeout", "ReadTimeout", "HTTPError", "MissingSchema", "JSONDecodeError"}

\* The classes an `except (KeyError, ValueError)` clause catches.
KeyOrValueErrors ==
    {"KeyError", "ValueError", "JSONDecodeError", "MissingSchema"}

----------------------------------------------------------------------------
(* What the network answers to an outbound GET *)

NoReply ==
    [kind |-> "none", exc |-> "", text |-> "", code |-> 0, body |-> JNull, size |-> 0]

Failure(cls, text) ==
    [kind |-> "exception", exc |-> cls, text |-> text, code |-> 0, body |-> JNull, size |-> 0]

Response(code, body, size) ==
    [kind |-> "response", exc |-> "", text |-> "", code |-> code, body |-> body, size |-> size]

NetworkFailures ==
    { Failure("ConnectionError", "Connection refused"),
      Failure("ConnectionError", "Connection reset by peer"),
      Failure("ConnectTimeout", "Connection to host timed out"),
      Failure("ReadTimeout", "Read timed out") }

\* Status codes for which raise_for_status raises.
ErrorCodes == {404, 500}

\* Codes outside 2xx for which raise_for_status does not raise: a 3xx answer that
\* requests does not follow (300 Multiple Choices).
UnfollowedCodes == {300}

ResolverReplies ==
    NetworkFailures
    \cup {Response(c, JNull, 0) : c \in ErrorCodes}
    \cup {Response(200, b, 0) : b \in JsonBodies \cup {NotJson}}
    \cup {Response(c, b, 0) : c \in UnfollowedCodes, b \in {JOk, NotJson}}

\* A statement after another: what the first raised, or the second applied to the
\* value of the first.
Then(r, F(_)) ==
    IF r.k # "return" THEN r ELSE F(r.value)

\* response.raise_for_status()
raise_for_status(reply) ==
    IF reply.code >= 400
    THEN Raised("HTTPError", IF reply.code >= 500 THEN "Server Error for url" ELSE "Client Error for url")
    ELSE Returned(<<>>)

\* requests.get(...) followed by response.raise_for_status()
requests_get(reply) ==
    IF reply.kind = "exception" THEN Raised(reply.exc, reply.text) ELSE raise_for_status(reply)

\* response.json()
json(reply) ==
    IF reply.body.t = "invalid"
    THEN Raised("JSONDecodeError", "Expecting value: line 1 column 1 (char 0)")
    ELSE Returned(reply.body)

----------------------------------------------------------------------------
(* get_download_urls *)

InvalidStructure ==
    Raised("ValueError", "Invalid API response structure")

\* The dict that is returned: the video URL is looked up first, then the audio URL.
DownloadUrls(data) ==
    Then(PyGetItem(data, "video_data"), LAMBDA vd :
    Then(PyGetItem(vd, "nwm_video_url"), LAMBDA video :
    Then(PyGetItem(data, "music_data"), LAMBDA md :
    Then(PyGetItem(md, "play_url"), LAMBDA pu :
    Then(PyGetItem(pu, "uri"), LAMBDA audio :
    Returned([video |-> video, audio |-> audio]))))))

\* if "video_data" not in data or "music_data" not in data: raise ValueError
CheckedUrls(data) ==
    Then(PyIn("video_data", data), LAMBDA hasVideo :
    IF ~hasVideo THEN InvalidStructure
    ELSE Then(PyIn("music_data", data), LAMBDA hasMusic :
         IF ~hasMusic THEN InvalidStructure ELSE DownloadUrls(data)))

\* The body of the try block.
get_download_urls_try(reply) ==
    Then(requests_get(reply), LAMBDA none :
    Then(json(reply), LAMBDA data : CheckedUrls(data)))

\* The two except clauses of get_download_urls, in their order.
get_download_urls_except(r) ==
    IF r.k = "raise" /\ r.exc \in RequestExceptions
    THEN RaisedHTTP(502, [msg |-> "API request failed: ", exc |-> r.detail.exc])
    ELSE IF r.k = "raise" /\ r.exc \in KeyOrValueErrors
    THEN RaisedHTTP(502, [msg |-> "API response error: ", exc |-> r.detail.exc])
    ELSE r

get_download_urls(reply) ==
    get_download_urls_except(get_download_urls_try(reply))

----------------------------------------------------------------------------
(* The two handlers *)

NoBody ==
    [present |-> FALSE, video_id |-> <<>>, video_url |-> JNull, audio_url |-> JNull]

NoHeaders ==
    [content_type |-> "", media_type |-> "", video_id |-> <<>>, ext |-> ""]

\* What a handler run leaves: the response (status, detail, JSON body or the
\* headers of a stream), the outbound calls it made, in order, and the state of
\* the upstream media response it opened.
Result(status, detail, body, headers, calls, conn, size) ==
    [status |-> status, detail |-> detail, body |-> body, headers |-> headers,
     calls |-> calls, conn |-> conn, size |-> size]

NoDetail ==
    [msg |-> "", exc |-> ""]

\* The except clauses of get_video_info: an HTTPException is raised again,
\* anything else becomes a 500.
get_video_info_except(r, calls) ==
    IF r.k = "http" THEN Result(r.status, r.detail, NoBody, NoHeaders, calls, "none", 0)
    ELSE Result(500, [msg |-> "Unexpected error: ", exc |-> r.detail.exc], NoBody, NoHeaders, calls, "none", 0)

\* The handler once extract_douyin_id has ended with id; urls is what
\* get_download_urls ends with when it is called.
InfoRun(id, urls) ==
    IF id.k # "return" THEN get_video_info_except(id, <<>>)
    ELSE IF urls.k # "return" THEN get_video_info_except(urls, <<"resolver">>)
    ELSE Result(200, NoDetail,
                [present |-> TRUE, video_id |-> id.value,
                 video_url |-> urls.value.video, audio_url |-> urls.value.audio],
                NoHeaders, <<"resolver">>, "none", 0)

get_video_info(url, reply) ==
    InfoRun(extract_douyin_id(url), get_download_urls(reply))

InvalidMediaTypeDetail ==
    [msg |-> "Invalid media type. Choose 'video' or 'audio'", exc |-> ""]

\* Whether requests.get reaches the host of media_url: a value that is no absolute
\* URL fails (MissingSchema) before any connection is made.
media_connects(media_url) ==
    media_url.t = "str" /\ media_url.s # ""

\* requests.get(media_url, stream=True, timeout=30) and raise_for_status.
media_get(media_url, mreply) ==
    IF ~media_connects(media_url) THEN Raised("MissingSchema", "Invalid URL: No scheme supplied")
    ELSE requests_get(mreply)

\* The except clauses of download_douyin with a failed media fetch answered like a
\* failed resolution.
download_douyin_except_502(r, calls, conn) ==
    IF r.k = "http" THEN Result(r.status, r.detail, NoBody, NoHeaders, calls, conn, 0)
    ELSE IF r.exc \in RequestExceptions
    THEN Result(502, [msg |-> "Download failed: ", exc |-> r.detail.exc], NoBody, NoHeaders, calls, conn, 0)
    ELSE Result(500, [msg |-> "Unexpected error: ", exc |-> r.detail.exc], NoBody, NoHeaders, calls, conn, 0)

\* The except clauses of download_douyin, in their order.
download_douyin_except(r, calls, conn) ==
    IF r.k = "http" THEN Result(r.status, r.detail, NoBody, NoHeaders, calls, conn, 0)
    ELSE IF r.exc \in RequestExceptions
    THEN Result(504, [msg |-> "Download failed: ", exc |-> r.detail.exc], NoBody, NoHeaders, calls, conn, 0)
    ELSE Result(500, [msg |-> "Unexpected error: ", exc |-> r.detail.exc], NoBody, NoHeaders, calls, conn, 0)

\* return StreamingResponse(response.iter_content(...), media_type=..., headers=...)
StreamingResponse(video_id, media_type, calls, size) ==
    Result(200, NoDetail, NoBody,
           [content_type |-> IF media_type = "video" THEN "video/mp4" ELSE "audio/mpeg",
            media_type |-> media_type, video_id |-> video_id,
            ext |-> IF media_type = "video" THEN ".mp4" ELSE ".mp3"],
           calls, "open", size)

\* The handler from the media fetch on, with a fetch that failed tried once more.
MediaRun_retry(video_id, media_type, media_url, mreply, fetched) ==
    IF fetched.k = "return"
    THEN StreamingResponse(video_id, media_type, <<"resolver", "media">>, mreply.size)
    ELSE download_douyin_except(fetched,
                                IF media_connects(media_url) THEN <<"resolver", "media", "media">> ELSE <<"resolver">>,
                                IF media_connects(media_url) /\ mreply.kind = "response" THEN "open" ELSE "none")

\* The handler from the media fetch on: fetched is what media_get ends with.  The
\* upstream response exists, unread, once the media host has answered.
MediaRun(video_id, media_type, media_url, mreply, fetched) ==
    IF fetched.k = "return"
    THEN StreamingResponse(video_id, media_type, <<"resolver", "media">>, mreply.size)
    ELSE download_douyin_except(fetched,
                                IF media_connects(media_url) THEN <<"resolver", "media">> ELSE <<"resolver">>,
                                IF media_connects(media_url) /\ mreply.kind = "response" THEN "open" ELSE "none")

\* The handler once extract_douyin_id has ended with id; urls is what
\* get_download_urls ends with when it is called.
DownloadRun(id, urls, media_type, mreply) ==
    IF id.k # "return" THEN download_douyin_except(id, <<>>, "none")
    ELSE IF urls.k # "return" THEN download_douyin_except(urls, <<"resolver">>, "none")
    ELSE IF media_type \notin DOMAIN urls.value
    THEN download_douyin_except(RaisedHTTP(400, InvalidMediaTypeDetail), <<"resolver">>, "none")
    ELSE MediaRun(id.value, media_type, urls.value[media_type], mreply,
                  media_get(urls.value[media_type], mreply))

download_douyin(url, media_type, reply, mreply) ==
    DownloadRun(extract_douyin_id(url), get_download_urls(reply), media_type, mreply)

----------------------------------------------------------------------------
(* The rate limiter and its exception handler *)

Routes == {"info", "download"}

Addr1 == "203.0.113.7"

Addr2 == "198.51.100.9"

Addrs == {Addr1, Addr2}

info_limit == 10

download_limit == 5

Limit(route) ==
    IF route = "info" THEN info_limit ELSE download_limit

RateLimitDetail ==
    [msg |-> "Too many requests. Limit: 5 downloads/min, 10 info requests/min", exc |-> ""]

\* rate_limit_exception_handler returns an HTTPException object: it neither
\* raises it nor returns a response.
rate_limit_exception_handler ==
    [class |-> "HTTPException", status_code |-> 429, detail |-> RateLimitDetail]

\* What the caller receives for the value an exception handler returned: the
\* framework calls the value as a response; a value that is no response cannot be
\* called, and the server answers 500 Internal Server Error.
send_handler_result(v) ==
    IF v.class = "Response"
    THEN Result(v.status_code, v.detail, NoBody, NoHeaders, <<>>, "none", 0)
    ELSE Result(500, [msg |-> "Internal Server Error", exc |-> ""], NoBody, NoHeaders, <<>>, "none", 0)

----------------------------------------------------------------------------
(* The media bodies and the relay *)

chunk_size_doubled ==
    2 * 1024 * 1024

\* iter_content(chunk_size=1024 * 1024)
chunk_size ==
    1024 * 1024

BodySizes ==
    {k * chunk_size + d : k \in 0..MaxChunks, d \in {0, 1}}

MediaReplies ==
    NetworkFailures
    \cup {Response(c, JNull, 0) : c \in ErrorCodes}
    \cup {Response(200, JNull, n) : n \in BodySizes}
    \cup {Response(c, JNull, 1) : c \in UnfollowedCodes}

MediaTypes == {"video", "audio", "bogus"}

\* The bytes of a sequence of chunks, each a part [off, len] of the body.
RECURSIVE Bytes(_)
Bytes(chunks) ==
    IF chunks = <<>> THEN 0 ELSE Head(chunks).len + Bytes(Tail(chunks))

Min(a, b) ==
    IF a < b THEN a ELSE b

\* The sizes the next chunk of iter_content(chunk_size) can have with `remaining`
\* bytes of the body left: up to chunk_size bytes, fewer when the transport hands
\* over less.
NextChunkSizes(remaining) ==
    {Min(chunk_size, remaining)} \cup {n \in {chunk_size \div 2} : n < Min(chunk_size, remaining)}

----------------------------------------------------------------------------
(* State *)

IdleRequest ==
    [route |-> "none", addr |-> "", url |-> <<>>, media_type |-> "", nth |-> 0, admitted |-> FALSE,
     reply |-> NoReply, mreply |-> NoReply,
     resp |-> Result(0, NoDetail, NoBody, NoHeaders, <<>>, "none", 0)]

NoChunk ==
    [off |-> 0, len |-> 0]

\* The relay of a streamed response: the upstream body's size, the chunks written
\* to the caller, the chunk read and not yet written, the upstream connection.
NoRelay ==
    [st |-> "none", size |-> 0, chunks |-> <<>>, held |-> NoChunk, conn |-> "none"]

Init ==
    /\ hits = [k \in Routes \X Addrs |-> 0]
    /\ req = IdleRequest
    /\ relay = NoRelay

\* The limiter's check: the hit is counted, and the request passes while the
\* count stays within the limit of the route.
Admitted(route, addr) ==
    hits[<<route, addr>>] + 1 <= Limit(route)

\* The relay of the response the handler returned.
StartRelay(resp) ==
    IF resp.status = 200 /\ resp.conn = "open"
    THEN [st |-> "streaming", size |-> resp.size, chunks |-> <<>>, held |-> NoChunk, conn |-> "open"]
    ELSE [st |-> "none", size |-> 0, chunks |-> <<>>, held |-> NoChunk, conn |-> resp.conn]

HasCall(resp, name) ==
    \E i \in 1..Len(resp.calls) : resp.calls[i] = name

\* What the caller gets: the limiter's exception handler answers a request over
\* the limit, the route's handler any other.
Serve(admitted, route, url, media_type, reply, mreply) ==
    IF ~admitted THEN send_handler_result(rate_limit_exception_handler)
    ELSE IF route = "info" THEN get_video_info(url, reply)
    ELSE download_douyin(url, media_type, reply, mreply)

\* A request arrives while none is being served; the limiter counts it (nth is
\* its number in the window of its key), and resp is what the caller gets.  cap
\* bounds the hits of one key in one window.
Arrive(route, addr, url, media_type, reply, mreply, resp, cap) ==
    /\ hits[<<route, addr>>] < cap
    /\ hits' = [hits EXCEPT ![<<route, addr>>] = @ + 1]
    /\ req' = [route |-> route, addr |-> addr, url |-> url, media_type |-> media_type,
               nth |-> hits[<<route, addr>>] + 1, admitted |-> Admitted(route, addr),
               reply |-> reply, mreply |-> mreply, resp |-> resp]
    /\ relay' = StartRelay(resp)

\* The answers the network can give to a call that is made, and none for a call
\* that is not.
Answers(admitted, resp, name, replies) ==
    IF admitted /\ HasCall(resp, name) THEN replies ELSE {NoReply}

\* GET /info from one of addrs, with a URL of urls; the resolver answers with one
\* of replies.
InfoRequest(addrs, urls, replies, cap) ==
    /\ req.route = "none"
    /\ \E addr \in addrs, url \in urls :
        \E reply \in Answers(Admitted("info", addr), get_video_info(url, NoReply), "resolver", replies) :
            Arrive("info", addr, url, "", reply, NoReply,
                   Serve(Admitted("info", addr), "info", url, "", reply, NoReply), cap)

\* GET /download; the media host answers with one of mreplies.
DownloadRequest(addrs, urls, replies, mreplies, cap) ==
    /\ req.route = "none"
    /\ \E addr \in addrs, url \in urls, media_type \in MediaTypes :
        \E reply \in Answers(Admitted("download", addr), download_douyin(url, media_type, NoReply, NoReply), "resolver", replies) :
            \E mreply \in Answers(Admitted("download", addr), download_douyin(url, media_type, reply, NoReply), "media", mreplies) :
                Arrive("download", addr, url, media_type, reply, mreply,
                       Serve(Admitted("download", addr), "download", url, media_type, reply, mreply), cap)

\* The response has been delivered, or the relay has ended: the request is over.
Finish ==
    /\ req.route # "none"
    /\ relay.st # "streaming"
    /\ req' = IdleRequest
    /\ relay' = NoRelay
    /\ UNCHANGED hits

\* The fixed window of a key ends: its count starts again.
WindowExpire ==
    \E k \in Routes \X Addrs :
        /\ hits[k] > 0
        /\ hits' = [hits EXCEPT ![k] = 0]
        /\ UNCHANGED <<req, relay>>

\* The iterator yields the next chunk of the upstream body.
RelayRead ==
    /\ relay.st = "streaming" /\ relay.held.len = 0
    /\ Bytes(relay.chunks) < relay.size
    /\ \E n \in NextChunkSizes(relay.size - Bytes(relay.chunks)) :
          relay' = [relay EXCEPT !.held = [off |-> Bytes(relay.chunks), len |-> n]]
    /\ UNCHANGED <<hits, req>>

\* The chunk is written to the caller.
RelaySend ==
    /\ relay.st = "streaming" /\ relay.held.len > 0
    /\ relay' = [relay EXCEPT !.chunks = Append(@, relay.held), !.held = NoChunk]
    /\ UNCHANGED <<hits, req>>

\* The upstream body is exhausted: the iterator ends, and the connection goes
\* back to its pool.
RelayEnd ==
    /\ relay.st = "streaming" /\ relay.held.len = 0
    /\ Bytes(relay.chunks) = relay.size
    /\ relay' = [relay EXCEPT !.st = "complete", !.conn = "released"]
    /\ UNCHANGED <<hits, req>>

\* Reading the upstream body fails after the status line and the headers (and
\* perhaps chunks) have gone to the caller: the iterator raises outside the
\* handler's try block, and the response is cut short.  The failed read closes
\* the connection.
RelayFail ==
    /\ relay.st = "streaming" /\ relay.held.len = 0
    /\ Bytes(relay.chunks) < relay.size
    /\ relay' = [relay EXCEPT !.st = "aborted", !.conn = "released"]
    /\ UNCHANGED <<hits, req>>

\* The caller goes away during the relay: the iterator is no longer advanced.
\* Nothing in the code closes the upstream response.
ClientDisconnect ==
    /\ relay.st = "streaming"
    /\ relay' = [relay EXCEPT !.st = "cancelled", !.held = NoChunk]
    /\ UNCHANGED <<hits, req>>

\* The runtime reclaims an upstream response that nothing refers to any more,
\* which closes its socket; when, if ever, is the runtime's choice.
Finalize ==
    /\ relay.st # "streaming" /\ relay.conn = "open"
    /\ relay' = [relay EXCEPT !.conn = "released"]
    /\ UNCHANGED <<hits, req>>

\* Every kind of request and answer, from one address, a few requests to a window.
Next ==
    \/ InfoRequest({Addr1}, Urls, ResolverReplies, MaxHits)
    \/ DownloadRequest({Addr1}, Urls, ResolverReplies, MediaReplies, MaxHits)
    \/ WindowExpire
    \/ RelayRead
    \/ RelaySend
    \/ RelayEnd
    \/ RelayFail
    \/ ClientDisconnect
    \/ Finalize
    \/ Finish

Spec ==
    Init /\ [][Next]_vars

\* Requests from two addresses up to and beyond the limits of both routes; the
\* requests are ones that need no relay.
RateUrls == {UrlShort, <<>>}

RateReplies == {Failure("ConnectionError", "Connection refused")}

NextRate ==
    \/ InfoRequest(Addrs, RateUrls, RateReplies, info_limit + MaxOver)
    \/ DownloadRequest(Addrs, RateUrls, RateReplies, {NoReply}, download_limit + MaxOver)
    \/ WindowExpire
    \/ Finish

SpecRate ==
    Init /\ [][NextRate]_vars


----------------------------------------------------------------------------
(* Properties *)

Served == req.route # "none"

\* The outbound call was made and failed: by an exception of the transport, or by
\* a status in the given set.
CallFailed(reply, codes) ==
    \/ reply.kind = "exception"
    \/ reply.kind = "response" /\ reply.code \in codes

Non2xx == ErrorCodes \cup UnfollowedCodes

\* C1: of the GET /download requests of one address in one window the first 5
\* are admitted, and each later one is answered 429 with the message that names
\* both limits, and makes no outbound call.
C1_SixthDownloadIs429 ==
    (Served /\ req.route = "download") =>
        IF req.nth <= 5
        THEN req.admitted /\ req.resp.status # 429
        ELSE /\ req.resp.status = 429
             /\ req.resp.detail = RateLimitDetail
             /\ req.resp.calls = <<>>

\* C2: an admitted GET /download whose media_type is neither "video" nor "audio"
\* is answered 400 and has made no outbound call.
C2_BadMediaTypeMakesNoCall ==
    (Served /\ req.admitted /\ req.route = "download" /\ req.media_type \notin {"video", "audio"}) =>
        /\ req.resp.status = 400
        /\ req.resp.calls = <<>>

HasDict(data, key) ==
    data.t = "dict" /\ key \in data.keys /\ data.f[key].t = "dict"

\* The field `key` of a dict is a string that is not empty.
HasUrl(data, key) ==
    data.t = "dict" /\ key \in data.keys /\ data.f[key].t = "str" /\ data.f[key].s # ""

\* Both URLs are present, strings, and not empty.
WellFormed(data) ==
    /\ HasDict(data, "video_data") /\ HasUrl(data.f["video_data"], "nwm_video_url")
    /\ HasDict(data, "music_data") /\ HasDict(data.f["music_data"], "play_url")
    /\ HasUrl(data.f["music_data"].f["play_url"], "uri")

\* C4: when the resolver answers 200 with a body in which a key or a nested field
\* is missing, of the wrong type or empty, the request fails with 502; /info
\* returns a result only for a well-formed body, and then the nested values.
C4_NoPartialResult ==
    (Served /\ req.reply.kind = "response" /\ req.reply.code = 200) =>
        /\ ~WellFormed(req.reply.body) => req.resp.status = 502
        /\ req.resp.body.present =>
              /\ WellFormed(req.reply.body)
              /\ req.resp.body.video_url = req.reply.body.f["video_data"].f["nwm_video_url"]
              /\ req.resp.body.audio_url = req.reply.body.f["music_data"].f["play_url"].f["uri"]

\* C5: a request ends as a full success or as one error of 400, 429, 502, 504,
\* 500; no response starts as a success and is then cut short.
C5_NoPartialSuccess ==
    Served =>
        /\ req.resp.status \in {200, 400, 429, 502, 504, 500}
        /\ ~(req.resp.status = 200 /\ relay.st = "aborted")

\* C6: the detail of a 502, 504 or 500 response holds no text of an exception.
C6_NoExceptionText ==
    (Served /\ req.resp.status \in {502, 504, 500}) => req.resp.detail.exc = ""

\* C7: once a request is over (answered without a relay, relay completed, relay
\* failed, caller gone) no upstream media connection that it opened is open.
C7_NoOpenConnectionAtEnd ==
    (Served /\ relay.st # "streaming") => relay.conn # "open"

\* What re.search gives for each pattern, by its place in the list, on each URL.
SearchResults ==
    [url \in Urls |-> [i \in 1..Len(patterns) |-> re_search(patterns[i], url)]]

\* The patterns, by their place in the list, that match the URL.
MatchingPatterns(url) ==
    {i \in 1..Len(patterns) : SearchResults[url][i].found}

FirstMatching(url) ==
    CHOOSE i \in MatchingPatterns(url) : \A j \in MatchingPatterns(url) : i <= j

\* The ids that Python's re.search gives for the URLs that a pattern matches.
KnownIds ==
    { <<UrlShort, IdABC123>>, <<UrlVideo, Id7301>>, <<UrlTikTok, IdABC123>>, <<UrlPlainHttp, IdAB>>,
      <<UrlBoth, IdCd>>, <<UrlDigitsThenLetters, Id12>>, <<UrlEmbedded, IdQ1>> }

\* C8: the id in a response is group 1 of the first pattern, in the listed order,
\* that matches the URL (for the URLs of the three shapes: ABC123, 7301, ABC123);
\* a URL that some pattern matches gets past the extraction; a URL that no
\* pattern matches is answered 400 with the message listing the three shapes,
\* and no outbound call is made.
C8_FirstMatchingPattern ==
    (Served /\ req.admitted) =>
        IF MatchingPatterns(req.url) = {}
        THEN /\ req.resp.status = 400
             /\ req.resp.detail = InvalidUrlDetail
             /\ req.resp.calls = <<>>
        ELSE /\ req.resp.calls # <<>>
             /\ req.resp.body.present =>
                   req.resp.body.video_id = SearchResults[req.url][FirstMatching(req.url)].group1
             /\ req.resp.headers.content_type # "" =>
                   req.resp.headers.video_id = SearchResults[req.url][FirstMatching(req.url)].group1
             /\ \A known \in KnownIds :
                   (req.resp.body.present /\ req.url = known[1]) => req.resp.body.video_id = known[2]

C8_Witness ==
    /\ req.url = UrlBoth
    /\ req.resp.body.present
    /\ req.resp.body.video_id = IdCd
    /\ MatchingPatterns(req.url) = {1, 3}

\* C9: the chunks written to the caller are consecutive parts of the upstream
\* body, each of at most 1 MiB; at most one chunk is held; when the relay
\* completes, the bytes written are the bytes of the upstream body.
C9_BoundedChunksExactBytes ==
    /\ \A i \in 1..Len(relay.chunks) :
          /\ relay.chunks[i].len \in 1..1048576
          /\ relay.chunks[i].off = Bytes(SubSeq(relay.chunks, 1, i - 1))
    /\ relay.held.len <= 1048576
    /\ relay.held.len > 0 => relay.held.off = Bytes(relay.chunks)
    /\ relay.st = "complete" => Bytes(relay.chunks) = relay.size

C9_Witness ==
    /\ relay.st = "complete"
    /\ relay.size = 2 * 1048576 + 1
    /\ Len(relay.chunks) >= 3

\* C10: /info makes at most one resolver call and no media fetch; /download makes
\* at most one resolver call and at most one media fetch, the fetch after a
\* resolution that succeeded; a call that fails is the last call of its request,
\* and the request ends with an error.
C10_NoRetry ==
    /\ req.resp.calls \in {<<>>, <<"resolver">>, <<"resolver", "media">>}
    /\ req.route = "info" => req.resp.calls \in {<<>>, <<"resolver">>}
    /\ HasCall(req.resp, "media") => get_download_urls(req.reply).k = "return"
    /\ CallFailed(req.reply, ErrorCodes) => req.resp.calls = <<"resolver">> /\ req.resp.status >= 400
    /\ CallFailed(req.mreply, ErrorCodes) => req.resp.calls = <<"resolver", "media">> /\ req.resp.status >= 400

C10_Witness ==
    /\ req.route = "download"
    /\ req.reply.exc = "ReadTimeout"
    /\ req.resp.calls = <<"resolver">>
    /\ req.resp.status = 502

====
